---------------------------- MODULE Spec2Model ----------------------------
(***************************************************************************)
(* Model of the boardcast video utilities (py-util):                       *)
(*   motion.py  - detect_motion_in_video and the segment post-processing   *)
(*   export.py  - process_overlay_data (the overlay planner),              *)
(*                get_multiple_overlay_command, execute_ffmpeg_command,    *)
(*                main; overlay.py and render.py variants of the last two  *)
(*   segmentation.py - order_points                                        *)
(*                                                                         *)
(* Times of the motion segmenter are exact rationals num/den (the code     *)
(* computes frame_count / fps).  Times of the post-processor are integers  *)
(* (only order, max, min, + and - are used by the code).  Times of the     *)
(* overlay planner are integers counting 1/UnitsPerMilli milliseconds, so  *)
(* that round(x, 3) is a real conversion.                                  *)
(***************************************************************************)
EXTENDS Integers, Sequences, FiniteSets, TLC

None == "None"

\* video_duration is None: <<>>; a known duration d: <<d>>
NoDuration == <<>>
Known(d) == <<d>>

\* the arguments before any post-processing call
NoArgs == [padding_seconds |-> 0, video_duration |-> NoDuration]

\* current_segment is None: no segment is open; an open segment (start, None)
\* is the one-element tuple <<start>>
NoSegment == <<>>

(***************************************************************************)
(* Bounds of the model.                                                    *)
(***************************************************************************)
MaxFrames == 6
MaxTime == 4       \* post-processor: largest time of an input interval
MaxSegs == 3       \* post-processor: longest list given to the merge
MaxPadSegs == 2    \* post-processor: longest list given to the other calls
MaxPad == 1        \* post-processor: padding_seconds ranges over 0..MaxPad+1
MaxMoves == 3      \* planner: longest timestamps list of the manifest
UnitsPerMilli == 5 \* planner: time resolution, units per 0.001 s
MaxPairs == 2      \* synthesizer: longest overlay / background list
MaxExitCode == 2   \* runner: largest return code of the external tool
GridMax == 2       \* order_points: corner coordinates range over 0..GridMax
MaxLoaded == 2     \* pipeline: longest timestamps list of a loaded manifest

VARIABLES
    \* ---- motion.py: detect_motion_in_video ----
    pc,               \* position in detect_motion_in_video
    raw_fps,          \* cap.get(CAP_PROP_FPS) of the video file
    fps,              \* video_props['fps'] (None until read)
    frame_count,      \* frames read by the loop
    prev_frame,       \* FALSE while prev_frame is None
    segments,         \* list of closed (start, end) segments
    current_segment,  \* NoSegment, or <<start>> of the open segment
    motion,           \* per-frame outcomes motion_score > motion_threshold
    handles,          \* video handles currently open
    error,            \* exception raised by the run, None if none
    \* ---- motion.py: segment post-processing ----
    post_in,          \* the segments argument
    post_op,          \* the function called, None before the call
    post_args,        \* <<padding_seconds, video_duration>> of the call
    post_out,         \* list returned (or printed), <<>> if none is
    post_returned,    \* TRUE when the call returned (or printed) a list
    post_err,         \* exception raised by the call, None if none
    \* ---- export.py: process_overlay_data ----
    export_data,      \* the manifest (export.json) as loaded
    plan_called,      \* TRUE once process_overlay_data has returned
    plan_result,      \* its return value
    plan_printed,     \* the diagnostic it printed
    \* ---- export.py: get_multiple_overlay_command ----
    synth_pc,               \* position in the function
    overlay_segs,           \* argument overlay_segs
    bg_segs,                \* argument bg_segs
    xy_offset,              \* argument xy_offset
    input_cmds,             \* the input declarations built so far
    filter_complex_parts,   \* the filter-graph parts built so far
    last_video_stream,      \* label of the running composite
    synth_i,                \* index of the next pair of the filter loop
    command,                \* the command returned, NoCommand before
    synth_err,              \* exception raised, None if none
    \* ---- execute_ffmpeg_command (export.py, overlay.py, render.py) ----
    run_impl,         \* the file whose execute_ffmpeg_command runs
    run_pc,           \* "idle", "start", "launched", "done"
    run_outcome,      \* what subprocess.run did
    run_result,       \* the dict returned
    run_raised,       \* exception that left the function, None if none
    \* ---- order_points (motion.py, segmentation.py) ----
    ord_impl,         \* the file whose order_points runs
    ord_in,           \* the 4 points passed to the first call
    ord_out,          \* the results of the successive calls
    \* ---- export.py: main ----
    main_pc,          \* "idle", "load", "render", "plan", "files",
                      \* "overlay", "done"
    main_data,        \* export_data as loaded
    render_result,    \* the dict returned by render_chess_animation
    overlay_data,     \* the value returned by process_overlay_data
    main_cmd,         \* cmd
    overlay_result,   \* the dict returned by execute_ffmpeg_command
    invocations,      \* the external processes launched, in order
    main_result,      \* the dict returned by main
    main_steps,       \* the steps of main entered, in order
    files_exist       \* what os.path.exists answered in step 4

motionVars == <<pc, raw_fps, fps, frame_count, prev_frame, segments,
                current_segment, motion, handles, error>>

postVars == <<post_in, post_op, post_args, post_out, post_returned, post_err>>

planVars == <<export_data, plan_called, plan_result, plan_printed>>

synthVars == <<synth_pc, overlay_segs, bg_segs, xy_offset, input_cmds,
               filter_complex_parts, last_video_stream, synth_i, command,
               synth_err>>

runVars == <<run_impl, run_pc, run_outcome, run_result, run_raised>>

orderVars == <<ord_impl, ord_in, ord_out>>

mainVars == <<main_pc, main_data, render_result, overlay_data, main_cmd,
              overlay_result, invocations, main_result, main_steps,
              files_exist>>

restVars == <<synthVars, runVars, orderVars, mainVars>>

vars == <<motionVars, postVars, planVars, restVars>>

(***************************************************************************)
(* Exact rational times.                                                   *)
(***************************************************************************)
RatLt(a, b) == a.num * b.den < b.num * a.den
RatLe(a, b) == a.num * b.den <= b.num * a.den

(***************************************************************************)
(* motion.py                                                               *)
(***************************************************************************)
DefaultFps == 30

\* the frame rates cap.get(CAP_PROP_FPS) reports; 0 = could not determine
FpsValues == {0, 2, 25}

\* get_video_properties: fps = cap.get(CAP_PROP_FPS); if fps == 0: fps = 30
VideoFps(raw) == IF raw = 0 THEN DefaultFps ELSE raw

\* timestamp = frame_count / fps   (also end_time = frame_count / fps)
Timestamp(fc, f) == [num |-> fc, den |-> f]

\* process_overlay_data returned None
NoPlan == [kind |-> "None", overlay_segs |-> <<>>, bg_segs |-> <<>>,
           xy_offset |-> <<>>]

\* a manifest field: absent, a number, or a value that is not a number
Missing == [kind |-> "missing", value |-> 0]
Number(v) == [kind |-> "number", value |-> v]
Text == [kind |-> "text", value |-> 0]

\* xy_offset=None, and a list given as xy_offset
NoOffset == [given |-> FALSE, value |-> <<>>]
Offset(v) == [given |-> TRUE, value |-> v]

\* no command has been returned
NoCommand == [built |-> FALSE]

\* stream labels: [i:v], [processed_overlay_i], [v_out_i]
InputStream(i) == <<"v", i>>
ProcessedOverlay(i) == <<"processed_overlay", i>>
VOut(i) == <<"v_out", i>>

SynthIdle ==
    /\ synth_pc = "idle"
    /\ overlay_segs = <<>>
    /\ bg_segs = <<>>
    /\ xy_offset = NoOffset
    /\ input_cmds = <<>>
    /\ filter_complex_parts = <<>>
    /\ last_video_stream = InputStream(0)
    /\ synth_i = 1
    /\ command = NoCommand
    /\ synth_err = None

\* subprocess.run has not been called
NoOutcome == [kind |-> "none"]

\* no dict has been returned
NoResult == [returned |-> FALSE]

RunIdle ==
    /\ run_impl = "export"
    /\ run_pc = "idle"
    /\ run_outcome = NoOutcome
    /\ run_result = NoResult
    /\ run_raised = None

OrderIdle ==
    /\ ord_impl = "motion"
    /\ ord_in = <<>>
    /\ ord_out = <<>>

\* load_export_data has not returned; load_export_data returned data
NotLoaded == [loaded |-> FALSE]
Loaded(data) == [loaded |-> TRUE, data |-> data]

\* os.path.exists has not been asked; its answers for background.mp4 and,
\* when the first is there, chess-animation.mp4
NotChecked == [checked |-> FALSE]
Checked(background, overlay) ==
    [checked |-> TRUE, background |-> background, overlay |-> overlay]

MainIdle ==
    /\ main_pc = "idle"
    /\ main_data = NotLoaded
    /\ render_result = NoResult
    /\ overlay_data = NoPlan
    /\ main_cmd = NoCommand
    /\ overlay_result = NoResult
    /\ invocations = <<>>
    /\ main_result = NoResult
    /\ main_steps = <<>>
    /\ files_exist = NotChecked

RestIdle == SynthIdle /\ RunIdle /\ OrderIdle /\ MainIdle

PlanIdle ==
    /\ export_data = [timePerMove |-> Missing, timestamps |-> <<>>,
                      x_offset |-> Missing, y_offset |-> Missing]
    /\ plan_called = FALSE
    /\ plan_result = NoPlan
    /\ plan_printed = None

PostIdle ==
    /\ post_in = <<>>
    /\ post_op = None
    /\ post_args = NoArgs
    /\ post_out = <<>>
    /\ post_returned = FALSE
    /\ post_err = None

MotionInit ==
    /\ PostIdle
    /\ PlanIdle
    /\ RestIdle
    /\ pc = "open"
    /\ raw_fps \in FpsValues
    /\ fps = None
    /\ frame_count = 0
    /\ prev_frame = FALSE
    /\ segments = <<>>
    /\ current_segment = NoSegment
    /\ motion = <<>>
    /\ handles = {}
    /\ error = None

\* cap = cv2.VideoCapture(video_path); if not cap.isOpened(): raise ValueError
OpenVideo ==
    /\ pc = "open"
    /\ \E opened \in BOOLEAN :
         IF opened
         THEN /\ handles' = handles \cup {"cap"}
              /\ pc' = "props"
              /\ error' = error
         ELSE /\ handles' = handles
              /\ pc' = "raised"
              /\ error' = "VideoOpenError"
    /\ UNCHANGED <<raw_fps, fps, frame_count, prev_frame, segments,
                   current_segment, motion>>
    /\ UNCHANGED <<postVars, planVars, restVars>>

\* video_props = get_video_properties(video_path): opens a second handle on
\* the same path, reads the frame rate (30 when it reads 0), releases the
\* second handle.  A failure to open raises ValueError out of
\* detect_motion_in_video.
GetVideoProperties ==
    /\ pc = "props"
    /\ \E opened \in BOOLEAN :
         IF opened
         THEN /\ fps' = VideoFps(raw_fps)
              /\ pc' = "first"
              /\ error' = error
         ELSE /\ fps' = fps
              /\ pc' = "raised"
              /\ error' = "VideoOpenError"
    /\ UNCHANGED <<raw_fps, frame_count, prev_frame, segments,
                   current_segment, motion, handles>>
    /\ UNCHANGED <<postVars, planVars, restVars>>

\* ret, first_frame = cap.read(); if not ret: cap.release(); raise ValueError
\* otherwise build the mask and cap.set(CAP_PROP_POS_FRAMES, 0)
ReadFirstFrame ==
    /\ pc = "first"
    /\ \E ret \in BOOLEAN :
         IF ret
         THEN /\ pc' = "loop"
              /\ handles' = handles
              /\ error' = error
         ELSE /\ pc' = "raised"
              /\ handles' = handles \ {"cap"}
              /\ error' = "EmptyVideoError"
    /\ UNCHANGED <<raw_fps, fps, frame_count, prev_frame, segments,
                   current_segment, motion>>
    /\ UNCHANGED <<postVars, planVars, restVars>>

\* mask = create_roi_mask(first_frame.shape, roi_corners) or
\* visualize_roi(...) raises (roi_corners that numpy cannot reshape to
\* (-1, 1, 2), for one): the exception leaves detect_motion_in_video
BuildMaskRaises ==
    /\ pc = "first"
    /\ pc' = "raised"
    /\ error' = "MaskError"
    /\ UNCHANGED <<raw_fps, fps, frame_count, prev_frame, segments,
                   current_segment, motion, handles>>
    /\ UNCHANGED <<postVars, planVars, restVars>>

\* mutant: the timestamp is taken after frame_count += 1
FrameTimestampAfterIncrement(fc, f) == Timestamp(fc + 1, f)

\* timestamp = frame_count / fps, taken before frame_count += 1
FrameTimestamp(fc, f) == Timestamp(fc, f)

\* mutant: every motion-present frame restarts the open segment
SegmentStepRestart(segs, cur, m, timestamp) ==
    IF m
    THEN [segs |-> segs, cur |-> <<timestamp>>]
    ELSE IF cur # NoSegment
         THEN [segs |-> Append(segs, <<cur[1], timestamp>>), cur |-> NoSegment]
         ELSE [segs |-> segs, cur |-> cur]

\* mutant: a closed segment is inserted at the front of the list
SegmentStepPrepend(segs, cur, m, timestamp) ==
    IF m
    THEN IF cur = NoSegment
         THEN [segs |-> segs, cur |-> <<timestamp>>]
         ELSE [segs |-> segs, cur |-> cur]
    ELSE IF cur # NoSegment
         THEN [segs |-> <<(<<cur[1], timestamp>>)>> \o segs, cur |-> NoSegment]
         ELSE [segs |-> segs, cur |-> cur]

\* the state machine of the loop body for one frame whose outcome
\* (motion_score > motion_threshold) is m, at time timestamp
SegmentStep(segs, cur, m, timestamp) ==
    IF m
    THEN IF cur = NoSegment
         THEN [segs |-> segs, cur |-> <<timestamp>>]
         ELSE [segs |-> segs, cur |-> cur]
    ELSE IF cur # NoSegment
         THEN [segs |-> Append(segs, <<cur[1], timestamp>>), cur |-> NoSegment]
         ELSE [segs |-> segs, cur |-> cur]

\* one iteration of the while loop with ret = True
ProcessFrame ==
    /\ pc = "loop"
    /\ frame_count < MaxFrames
    /\ frame_count' = frame_count + 1
    /\ IF ~prev_frame
       THEN \* prev_frame is None: prev_frame = blurred; continue
            /\ prev_frame' = TRUE
            /\ UNCHANGED <<segments, current_segment, motion>>
       ELSE \E m \in BOOLEAN :
              LET r == SegmentStep(segments, current_segment, m,
                                   FrameTimestamp(frame_count, fps))
              IN /\ segments' = r.segs
                 /\ current_segment' = r.cur
                 /\ motion' = Append(motion, m)
                 /\ prev_frame' = prev_frame
    /\ UNCHANGED <<pc, raw_fps, fps, handles, error>>
    /\ UNCHANGED <<postVars, planVars, restVars>>

\* one iteration of the while loop in which cv2.cvtColor, bitwise_and,
\* GaussianBlur, absdiff, threshold or dilate raises after frame_count += 1:
\* the exception leaves detect_motion_in_video
ProcessFrameRaises ==
    /\ pc = "loop"
    /\ frame_count < MaxFrames
    /\ frame_count' = frame_count + 1
    /\ pc' = "raised"
    /\ error' = "FrameError"
    /\ UNCHANGED <<raw_fps, fps, prev_frame, segments, current_segment,
                   motion, handles>>
    /\ UNCHANGED <<postVars, planVars, restVars>>

\* mutant: the open segment is closed at the last frame's timestamp
FinalSegmentsLastTimestamp(segs, cur, fc, f) ==
    IF cur # NoSegment THEN Append(segs, <<cur[1], Timestamp(fc - 1, f)>>) ELSE segs

\* mutant: the open segment is dropped at end of stream
FinalSegmentsDiscard(segs, cur, fc, f) == segs

\* if current_segment is not None: end_time = frame_count / fps; append
FinalSegments(segs, cur, fc, f) ==
    IF cur # NoSegment THEN Append(segs, <<cur[1], Timestamp(fc, f)>>) ELSE segs

\* ret = False: break; handle the ongoing segment; cap.release(); return
EndOfStream ==
    /\ pc = "loop"
    /\ frame_count >= 1
    /\ segments' = FinalSegments(segments, current_segment, frame_count, fps)
    /\ current_segment' = NoSegment
    /\ handles' = handles \ {"cap"}
    /\ pc' = "returned"
    /\ UNCHANGED <<raw_fps, fps, frame_count, prev_frame, motion, error>>
    /\ UNCHANGED <<postVars, planVars, restVars>>

MotionNext ==
    \/ OpenVideo
    \/ GetVideoProperties
    \/ ReadFirstFrame
    \/ BuildMaskRaises
    \/ ProcessFrame
    \/ ProcessFrameRaises
    \/ EndOfStream

SpecMotion == MotionInit /\ [][MotionNext]_vars

(***************************************************************************)
(* motion.py: segment post-processing.  A segment is <<start, end>>.       *)
(***************************************************************************)
Max(a, b) == IF a >= b THEN a ELSE b
Min(a, b) == IF a <= b THEN a ELSE b

\* sorted(segments, key=lambda x: x[0]): a stable sort by start
RECURSIVE InsertByStart(_, _)
InsertByStart(x, sorted) ==
    IF sorted = <<>> THEN <<x>>
    ELSE IF x[1] < sorted[1][1] THEN <<x>> \o sorted
    ELSE <<sorted[1]>> \o InsertByStart(x, Tail(sorted))

RECURSIVE SortByStart(_)
SortByStart(segs) ==
    IF segs = <<>> THEN <<>>
    ELSE InsertByStart(segs[Len(segs)],
                       SortByStart(SubSeq(segs, 1, Len(segs) - 1)))

\* mutant: touching segments are not merged
MergeableStrict(start, current_end) == start < current_end

\* if start <= current_end:  # Overlapping or touching
Mergeable(start, current_end) == start <= current_end

\* mutant: the running segment is not appended after the loop
FlushLastMissing(merged, current_start, current_end) == merged

\* merged_segments.append((current_start, current_end)) after the loop
FlushLast(merged, current_start, current_end) ==
    Append(merged, <<current_start, current_end>>)

\* the scan over sorted_segments[1:]
RECURSIVE MergeScan(_, _, _, _)
MergeScan(rest, current_start, current_end, merged) ==
    IF rest = <<>> THEN FlushLast(merged, current_start, current_end)
    ELSE LET start == rest[1][1]
             end == rest[1][2]
         IN IF Mergeable(start, current_end)
            THEN MergeScan(Tail(rest), current_start, Max(current_end, end),
                           merged)
            ELSE MergeScan(Tail(rest), start, end,
                           Append(merged, <<current_start, current_end>>))

merge_overlapping_segments(segs) ==
    IF segs = <<>> THEN <<>>
    ELSE LET sorted_segments == SortByStart(segs)
         IN MergeScan(Tail(sorted_segments), sorted_segments[1][1],
                      sorted_segments[1][2], <<>>)

\* mutant: the padded end is not clamped to the video duration
PaddedEndUnclamped(end, padding_seconds, video_duration) ==
    end + padding_seconds

\* padded_start = max(0, start - padding_seconds)
PaddedStart(start, padding_seconds) == Max(0, start - padding_seconds)

\* padded_end = min(end + padding_seconds, video_duration)
PaddedEnd(end, padding_seconds, video_duration) ==
    Min(end + padding_seconds, video_duration)

Returned(list) == [out |-> list, returned |-> TRUE, err |-> None]
Raised(exc) == [out |-> <<>>, returned |-> FALSE, err |-> exc]

\* add_padding_to_segments; with video_duration None and a non-empty list,
\* min(end + padding_seconds, None) raises TypeError
add_padding_to_segments(segs, padding_seconds, video_duration) ==
    IF segs = <<>> THEN Returned(<<>>)
    ELSE IF video_duration = NoDuration THEN Raised("TypeError")
    ELSE Returned([i \in 1..Len(segs) |->
            <<PaddedStart(segs[i][1], padding_seconds),
              PaddedEnd(segs[i][2], padding_seconds, video_duration[1])>>])

process_motion_segments(segs, padding_seconds, video_duration) ==
    IF segs = <<>> THEN Returned(<<>>)
    ELSE IF padding_seconds > 0 /\ video_duration = NoDuration
    THEN Raised("ValueError")
    ELSE Returned(merge_overlapping_segments(
                     IF padding_seconds > 0
                     THEN add_padding_to_segments(segs, padding_seconds,
                                                  video_duration).out
                     ELSE segs))

\* print_motion_results: the list it prints (<<>> stands for the message
\* "No motion detected"), or the exception of process_motion_segments
print_motion_results(segs, padding_seconds, video_duration) ==
    IF padding_seconds > 0 /\ video_duration # NoDuration
    THEN process_motion_segments(segs, padding_seconds, video_duration)
    ELSE Returned(segs)

\* the input intervals: start < end, times in 0..MaxTime
Intervals == {iv \in (0..MaxTime) \X (0..MaxTime) : iv[1] < iv[2]}

RECURSIVE SeqsUpTo(_, _)
SeqsUpTo(S, n) ==
    IF n = 0 THEN {<<>>}
    ELSE LET shorter == SeqsUpTo(S, n - 1)
         IN shorter \cup {Append(q, x) : q \in shorter, x \in S}

Paddings == 0..(MaxPad + 1)
Durations == {NoDuration} \cup {Known(d) : d \in 0..(MaxTime + 1)}

MotionIdle ==
    /\ pc = "idle"
    /\ raw_fps = 0
    /\ fps = None
    /\ frame_count = 0
    /\ prev_frame = FALSE
    /\ segments = <<>>
    /\ current_segment = NoSegment
    /\ motion = <<>>
    /\ handles = {}
    /\ error = None

PostInit ==
    /\ MotionIdle
    /\ PlanIdle
    /\ RestIdle
    /\ post_in \in SeqsUpTo(Intervals, MaxSegs)
    /\ post_op = None
    /\ post_args = NoArgs
    /\ post_out = <<>>
    /\ post_returned = FALSE
    /\ post_err = None

\* a direct call of merge_overlapping_segments(segments)
CallMerge ==
    /\ post_op = None
    /\ post_op' = "merge"
    /\ post_out' = merge_overlapping_segments(post_in)
    /\ post_returned' = TRUE
    /\ UNCHANGED <<post_in, post_args, post_err, motionVars, planVars, restVars>>

\* a direct call of add_padding_to_segments
CallAddPadding ==
    /\ post_op = None
    /\ Len(post_in) <= MaxPadSegs
    /\ \E p \in Paddings, vd \in Durations :
         LET r == add_padding_to_segments(post_in, p, vd)
         IN /\ post_op' = "pad"
            /\ post_args' = [padding_seconds |-> p, video_duration |-> vd]
            /\ post_out' = r.out
            /\ post_returned' = r.returned
            /\ post_err' = r.err
    /\ UNCHANGED <<post_in, motionVars, planVars, restVars>>

\* a call of process_motion_segments
CallProcess ==
    /\ post_op = None
    /\ Len(post_in) <= MaxPadSegs
    /\ \E p \in Paddings, vd \in Durations :
         LET r == process_motion_segments(post_in, p, vd)
         IN /\ post_op' = "process"
            /\ post_args' = [padding_seconds |-> p, video_duration |-> vd]
            /\ post_out' = r.out
            /\ post_returned' = r.returned
            /\ post_err' = r.err
    /\ UNCHANGED <<post_in, motionVars, planVars, restVars>>

\* a call of print_motion_results
CallPrint ==
    /\ post_op = None
    /\ Len(post_in) <= MaxPadSegs
    /\ \E p \in Paddings, vd \in Durations :
         LET r == print_motion_results(post_in, p, vd)
         IN /\ post_op' = "print"
            /\ post_args' = [padding_seconds |-> p, video_duration |-> vd]
            /\ post_out' = r.out
            /\ post_returned' = r.returned
            /\ post_err' = r.err
    /\ UNCHANGED <<post_in, motionVars, planVars, restVars>>

PostNext ==
    \/ CallMerge
    \/ CallAddPadding
    \/ CallProcess
    \/ CallPrint

SpecPost == PostInit /\ [][PostNext]_vars

(***************************************************************************)
(* export.py: process_overlay_data.  Times are integers counting           *)
(* 1/UnitsPerMilli of a millisecond; round(x, 3) rounds to a whole         *)
(* millisecond, ties to the even one.                                      *)
(***************************************************************************)
RoundDigits == 3
EndTime == 7
DefaultTimePerMoveMillis == 200

UnitsPerSecond == (10 ^ RoundDigits) * UnitsPerMilli

\* round(x, 3)
Round3(x) ==
    LET q == x \div UnitsPerMilli
        r == x % UnitsPerMilli
    IN IF 2 * r < UnitsPerMilli THEN q * UnitsPerMilli
       ELSE IF 2 * r > UnitsPerMilli THEN (q + 1) * UnitsPerMilli
       ELSE IF q % 2 = 0 THEN q * UnitsPerMilli
       ELSE (q + 1) * UnitsPerMilli

\* export_data.get('timePerMove', 0.2)
GetTimePerMove(data) ==
    IF data.timePerMove.kind = "missing"
    THEN Number(DefaultTimePerMoveMillis * UnitsPerMilli)
    ELSE data.timePerMove

\* export_data.get('x_offset', 0), export_data.get('y_offset', 0)
GetOffset(field) == IF field.kind = "missing" THEN 0 ELSE field.value

\* overlay_segs = [[round(i*d, 3), round((i+1)*d, 3)] for i in range(N)]
OverlaySegs(N, d) ==
    [i \in 1..N |-> <<Round3((i - 1) * d), Round3(i * d)>>]

\* timestamps_copy = timestamps.copy(); timestamps_copy.append(7)
TimestampsCopy(timestamps) == Append(timestamps, EndTime * UnitsPerSecond)

\* mutant: the first background start is left unshifted
FirstStartUnshifted(start, d) == start

\* bg_segs[0][0] = round(bg_segs[0][0] + timePerMove, 3)
FirstStart(start, d) == Round3(start + d)

\* bg_segs = [[round(copy[i-1] - d, 3), copy[i]] for i in range(1, N+1)],
\* then the first start is shifted
BgSegs(N, d, copy) ==
    [i \in 1..N |->
        <<IF i = 1 THEN FirstStart(Round3(copy[i] - d), d)
                   ELSE Round3(copy[i] - d),
          copy[i + 1]>>]

\* mutant: an empty timestamps list yields a plan with empty lists
EmptyPlanAsEmptyLists(data) ==
    [result |-> [kind |-> "plan", overlay_segs |-> <<>>, bg_segs |-> <<>>,
                 xy_offset |-> <<GetOffset(data.x_offset),
                                 GetOffset(data.y_offset)>>],
     printed |-> "Processed overlay data"]

\* if numberOfMoves == 0: print("No timestamps found ..."); return None
EmptyPlan(data) ==
    [result |-> NoPlan, printed |-> "No timestamps found in export data"]

\* process_overlay_data: the value returned and the diagnostic printed
process_overlay_data(data) ==
    LET timePerMove == GetTimePerMove(data)
        timestamps == data.timestamps
        numberOfMoves == Len(timestamps)
    IN IF numberOfMoves = 0 THEN EmptyPlan(data)
       ELSE IF timePerMove.kind # "number"
       THEN \* i*timePerMove is not a number: round raises, except: None
            [result |-> NoPlan, printed |-> "Error processing overlay data"]
       ELSE [result |->
                [kind |-> "plan",
                 overlay_segs |-> OverlaySegs(numberOfMoves,
                                              timePerMove.value),
                 bg_segs |-> BgSegs(numberOfMoves, timePerMove.value,
                                    TimestampsCopy(timestamps)),
                 xy_offset |-> <<GetOffset(data.x_offset),
                                 GetOffset(data.y_offset)>>],
             printed |-> "Processed overlay data"]

\* timePerMove of the manifest: absent, 0.2 s, 0.2 s plus one unit, or text
TimePerMoveFields ==
    {Missing, Text, Number(DefaultTimePerMoveMillis * UnitsPerMilli),
     Number(DefaultTimePerMoveMillis * UnitsPerMilli + 1)}

\* event times of the manifest: 1 s, 1 s plus two units, 2 s, 3 s, 8 s
\* (an absent 'timestamps' key reads as the empty list)
TimestampValues ==
    {UnitsPerSecond, UnitsPerSecond + 2, 2 * UnitsPerSecond,
     3 * UnitsPerSecond, (EndTime + 1) * UnitsPerSecond}

OffsetFields == {Missing, Number(40)}

PlanInit ==
    /\ MotionIdle
    /\ PostIdle
    /\ RestIdle
    /\ export_data \in [timePerMove : TimePerMoveFields,
                         timestamps : SeqsUpTo(TimestampValues, MaxMoves),
                         x_offset : OffsetFields,
                         y_offset : OffsetFields]
    /\ plan_called = FALSE
    /\ plan_result = NoPlan
    /\ plan_printed = None

\* a call of process_overlay_data(export_data)
CallProcessOverlayData ==
    /\ ~plan_called
    /\ LET r == process_overlay_data(export_data)
       IN /\ plan_result' = r.result
          /\ plan_printed' = r.printed
    /\ plan_called' = TRUE
    /\ UNCHANGED <<export_data, motionVars, postVars, restVars>>

PlanNext == CallProcessOverlayData

SpecPlan == PlanInit /\ [][PlanNext]_vars

(***************************************************************************)
(* export.py: get_multiple_overlay_command (overlay.py has the same text). *)
(* The command is kept as its parts: the input declarations, the filter    *)
(* graph parts and the mapped stream.  Times are in the planner's units.   *)
(***************************************************************************)
Epsilon == UnitsPerMilli      \* 0.001 s

\* mutant: the length check is missing
LengthsDifferUnchecked(ov, bg) == FALSE

\* if len(overlay_segs) != len(bg_segs): raise ValueError
LengthsDiffer(ov, bg) == Len(ov) # Len(bg)

\* if not isinstance(xy_offset, (list, tuple)) or len(xy_offset) != 2
BadOffset(xy) == Len(xy.value) # 2

\* if xy_offset is None: xy_offset = [0, 0]
DefaultedOffset(xy) == IF xy.given THEN xy ELSE Offset(<<0, 0>>)

\* input_cmds: '-i background', then '-ss start -t duration -i overlay'
\* for every overlay segment
InputCmds(ov) ==
    <<[kind |-> "background", ss |-> 0, t |-> 0]>> \o
    [i \in 1..Len(ov) |->
        [kind |-> "overlay", ss |-> ov[i][1], t |-> ov[i][2] - ov[i][1]]]

\* mutant: the comparison has no epsilon
NeedsFreezeNoEpsilon(freeze_duration) == freeze_duration > 0

\* if freeze_duration > 0.001
NeedsFreeze(freeze_duration) == freeze_duration > Epsilon

\* overlay_sub_filters: an optional tpad, then setpts=PTS+bg_start/TB
OverlaySubFilters(overlay_seg, bg_seg) ==
    LET overlay_duration == overlay_seg[2] - overlay_seg[1]
        bg_overlay_duration == bg_seg[2] - bg_seg[1]
        freeze_duration == bg_overlay_duration - overlay_duration
    IN (IF NeedsFreeze(freeze_duration)
        THEN <<[op |-> "tpad", arg |-> freeze_duration]>>
        ELSE <<>>) \o <<[op |-> "setpts", arg |-> bg_seg[1]]>>

\* render.py get_overlay_command: overlay_filter_chain of its single pair
RenderFilterChain(overlay_segment, background_segment) ==
    LET overlay_duration == overlay_segment[2] - overlay_segment[1]
        bg_overlay_duration == background_segment[2] - background_segment[1]
        freeze_duration == bg_overlay_duration - overlay_duration
    IN (IF NeedsFreeze(freeze_duration)
        THEN <<[op |-> "tpad", arg |-> freeze_duration]>>
        ELSE <<>>) \o <<[op |-> "setpts", arg |-> background_segment[1]]>>

\* render.py get_overlay_command: its filter_complex, with the fixed labels
\* [1:v], [delayed_overlay], [0:v]; the overlay output is unlabelled
RenderFilterComplex(overlay_segment, background_segment) ==
    <<[ins |-> <<InputStream(1)>>,
       ops |-> RenderFilterChain(overlay_segment, background_segment),
       out |-> <<"delayed_overlay", 0>>],
      [ins |-> <<InputStream(0), <<"delayed_overlay", 0>> >>,
       ops |-> <<[op |-> "overlay", arg |-> <<0, 0>>,
                  from |-> background_segment[1],
                  to |-> background_segment[2]]>>,
       out |-> <<"unlabelled", 0>>]>>

\* mutant: every overlay is composed onto the background stream
OverlayBaseAlwaysBackground(last) == InputStream(0)

\* the base stream of the overlay operation of a step
OverlayBase(last) == last

\* the two parts appended for pair i: the processed overlay input and the
\* overlay of it onto the running composite
FilterParts(i, overlay_seg, bg_seg, last, xy) ==
    <<[ins |-> <<InputStream(i)>>,
       ops |-> OverlaySubFilters(overlay_seg, bg_seg),
       out |-> ProcessedOverlay(i)],
      [ins |-> <<OverlayBase(last), ProcessedOverlay(i)>>,
       ops |-> <<[op |-> "overlay", arg |-> xy.value,
                  from |-> bg_seg[1], to |-> bg_seg[2]]>>,
       out |-> VOut(i)]>>

\* zip(overlay_segs, bg_segs) stops at the shorter list
ZipLen(ov, bg) == IF Len(ov) <= Len(bg) THEN Len(ov) ELSE Len(bg)

\* the stream mapped to the output file
MappedStream(last) == last

\* the assembled command
Command(inputs, parts, last) ==
    [built |-> TRUE, inputs |-> inputs, filter_complex |-> parts,
     map |-> MappedStream(last), audio |-> "copy"]

\* the arguments of a call: overlay windows 0-0.2 s and 0.2-0.4 s
OverlayWindows ==
    {<<0, 200 * UnitsPerMilli>>, <<200 * UnitsPerMilli, 400 * UnitsPerMilli>>}

\* background windows starting at 1 s, of length 4 s, 0.2 s, 0.2 s plus
\* epsilon, 0.2 s plus epsilon plus one unit, 0.2 s plus one unit, 0.1 s
BgWindows ==
    {<<UnitsPerSecond, UnitsPerSecond + len>> :
        len \in {4 * UnitsPerSecond, 200 * UnitsPerMilli,
                 200 * UnitsPerMilli + Epsilon,
                 200 * UnitsPerMilli + Epsilon + 1,
                 200 * UnitsPerMilli + 1, 100 * UnitsPerMilli}}

OffsetArgs == {NoOffset, Offset(<<40, 30>>), Offset(<<40>>)}

SynthInit ==
    /\ MotionIdle
    /\ PostIdle
    /\ PlanIdle
    /\ RunIdle
    /\ OrderIdle
    /\ MainIdle
    /\ synth_pc = "start"
    /\ overlay_segs \in SeqsUpTo(OverlayWindows, MaxPairs)
    /\ bg_segs \in SeqsUpTo(BgWindows, MaxPairs)
    /\ xy_offset \in OffsetArgs
    /\ input_cmds = <<>>
    /\ filter_complex_parts = <<>>
    /\ last_video_stream = InputStream(0)
    /\ synth_i = 1
    /\ command = NoCommand
    /\ synth_err = None

\* the two validations at the head of the function
SynthValidate ==
    /\ synth_pc = "start"
    /\ IF LengthsDiffer(overlay_segs, bg_segs)
          \/ BadOffset(DefaultedOffset(xy_offset))
       THEN /\ synth_pc' = "raised"
            /\ synth_err' = "ValueError"
            /\ xy_offset' = xy_offset
       ELSE /\ synth_pc' = "inputs"
            /\ synth_err' = synth_err
            /\ xy_offset' = DefaultedOffset(xy_offset)
    /\ UNCHANGED <<overlay_segs, bg_segs, input_cmds, filter_complex_parts,
                   last_video_stream, synth_i, command>>
    /\ UNCHANGED <<motionVars, postVars, planVars, runVars, orderVars,
                   mainVars>>

\* 1. build the input file list; last_video_stream = "[0:v]"
SynthBuildInputs ==
    /\ synth_pc = "inputs"
    /\ input_cmds' = InputCmds(overlay_segs)
    /\ last_video_stream' = InputStream(0)
    /\ synth_pc' = "filters"
    /\ UNCHANGED <<overlay_segs, bg_segs, xy_offset, filter_complex_parts,
                   synth_i, command, synth_err>>
    /\ UNCHANGED <<motionVars, postVars, planVars, runVars, orderVars,
                   mainVars>>

\* 2. one iteration of the loop over zip(overlay_segs, bg_segs)
SynthFilterStep ==
    /\ synth_pc = "filters"
    /\ synth_i <= ZipLen(overlay_segs, bg_segs)
    /\ filter_complex_parts' = filter_complex_parts \o
            FilterParts(synth_i, overlay_segs[synth_i], bg_segs[synth_i],
                        last_video_stream, xy_offset)
    /\ last_video_stream' = VOut(synth_i)
    /\ synth_i' = synth_i + 1
    /\ UNCHANGED <<synth_pc, overlay_segs, bg_segs, xy_offset, input_cmds,
                   command, synth_err>>
    /\ UNCHANGED <<motionVars, postVars, planVars, runVars, orderVars,
                   mainVars>>

\* 3. assemble the final command and return it
SynthAssemble ==
    /\ synth_pc = "filters"
    /\ synth_i > ZipLen(overlay_segs, bg_segs)
    /\ command' = Command(input_cmds, filter_complex_parts,
                          last_video_stream)
    /\ synth_pc' = "returned"
    /\ UNCHANGED <<overlay_segs, bg_segs, xy_offset, input_cmds,
                   filter_complex_parts, last_video_stream, synth_i,
                   synth_err>>
    /\ UNCHANGED <<motionVars, postVars, planVars, runVars, orderVars,
                   mainVars>>

\* render.py: get_overlay_command(overlay_segment, background_segment), the
\* single-pair command builder, called on one pair
CallGetOverlayCommand ==
    /\ synth_pc = "start"
    /\ Len(overlay_segs) = 1
    /\ Len(bg_segs) = 1
    /\ input_cmds' = InputCmds(overlay_segs)
    /\ filter_complex_parts' = RenderFilterComplex(overlay_segs[1], bg_segs[1])
    /\ command' = [built |-> TRUE, inputs |-> InputCmds(overlay_segs),
                   filter_complex |->
                       RenderFilterComplex(overlay_segs[1], bg_segs[1]),
                   map |-> <<"unlabelled", 0>>, audio |-> "copy"]
    /\ synth_pc' = "single_returned"
    /\ UNCHANGED <<overlay_segs, bg_segs, xy_offset, last_video_stream,
                   synth_i, synth_err>>
    /\ UNCHANGED <<motionVars, postVars, planVars, runVars, orderVars,
                   mainVars>>

SynthNext ==
    \/ CallGetOverlayCommand
    \/ SynthValidate
    \/ SynthBuildInputs
    \/ SynthFilterStep
    \/ SynthAssemble

SpecSynth == SynthInit /\ [][SynthNext]_vars

(***************************************************************************)
(* execute_ffmpeg_command, in export.py, overlay.py and render.py.         *)
(* subprocess.run(command, shell=True, capture_output=True, text=True,     *)
(* timeout=300) hands the command to the shell.  Its outcomes:             *)
(*   exited         - the tool ran and exited with a return code           *)
(*   tool_not_found - the shell could not find ffmpeg.exe on the search    *)
(*                    path: the shell itself exits with a non-zero status  *)
(*                    (1 from cmd.exe, 127 from sh); no exception          *)
(*   timeout        - subprocess.TimeoutExpired                            *)
(*   file_not_found - FileNotFoundError (the shell executable is missing,  *)
(*                    or os.getcwd() fails in export.py and overlay.py)    *)
(*   other          - any other Exception                                  *)
(***************************************************************************)
RunnerImpls == {"export", "overlay", "render"}
ExitCodes == 0..MaxExitCode
ShellNotFoundCodes == {1, 127}
Texts == {"", "text"}

Outcomes ==
    {[kind |-> "exited", returncode |-> rc, stdout |-> out, stderr |-> err] :
        rc \in ExitCodes, out \in Texts, err \in Texts}
    \cup {[kind |-> "tool_not_found", returncode |-> rc, stdout |-> "",
           stderr |-> "text"] : rc \in ShellNotFoundCodes}
    \cup {[kind |-> "timeout"], [kind |-> "file_not_found"],
          [kind |-> "other"]}

\* return { 'success': result.returncode == 0, 'output': result.stdout,
\*          'error': result.stderr, 'return_code': result.returncode }
CompletedResult(o) ==
    [returned |-> TRUE,
     dict |-> [success |-> (o.returncode = 0), output |-> o.stdout,
               error |-> o.stderr, return_code |-> o.returncode]]

\* the dict of an except branch: render.py adds 'output': ''
FailureResult(impl, message) ==
    [returned |-> TRUE,
     dict |-> IF impl = "render"
              THEN [success |-> FALSE, output |-> "", error |-> message,
                    return_code |-> -1]
              ELSE [success |-> FALSE, error |-> message,
                    return_code |-> -1]]

\* the message of except subprocess.TimeoutExpired
TimeoutMessage(impl) ==
    IF impl = "export" THEN "FFmpeg command timed out after 5 minutes"
    ELSE "Command timed out after 5 minutes"

\* execute_ffmpeg_command: the dict returned for an outcome of the launch
execute_ffmpeg_command(impl, o) ==
    IF o.kind \in {"exited", "tool_not_found"} THEN CompletedResult(o)
    ELSE IF o.kind = "timeout"
    THEN FailureResult(impl, TimeoutMessage(impl))
    ELSE IF o.kind = "file_not_found"
    THEN FailureResult(impl,
                       "ffmpeg.exe not found in PATH or current directory")
    ELSE FailureResult(impl, "Unexpected error")

RunnerInit ==
    /\ MotionIdle
    /\ PostIdle
    /\ PlanIdle
    /\ SynthIdle
    /\ OrderIdle
    /\ MainIdle
    /\ run_impl \in RunnerImpls
    /\ run_pc = "start"
    /\ run_outcome = NoOutcome
    /\ run_result = NoResult
    /\ run_raised = None

\* result = subprocess.run(...): the launch and its outcome
RunnerLaunch ==
    /\ run_pc = "start"
    /\ run_outcome' \in Outcomes
    /\ run_pc' = "launched"
    /\ UNCHANGED <<run_impl, run_result, run_raised>>
    /\ UNCHANGED <<motionVars, postVars, planVars, synthVars, orderVars,
                   mainVars>>

\* the return statement, or the except branch, for the outcome
RunnerReturn ==
    /\ run_pc = "launched"
    /\ run_result' = execute_ffmpeg_command(run_impl, run_outcome)
    /\ run_pc' = "done"
    /\ UNCHANGED <<run_impl, run_outcome, run_raised>>
    /\ UNCHANGED <<motionVars, postVars, planVars, synthVars, orderVars,
                   mainVars>>

RunnerNext ==
    \/ RunnerLaunch
    \/ RunnerReturn

SpecRunner == RunnerInit /\ [][RunnerNext]_vars

(***************************************************************************)
(* order_points, in motion.py and segmentation.py.  A point is <<x, y>>.   *)
(* sorted() is stable: elements with equal keys keep their order, also     *)
(* with reverse=True.                                                      *)
(***************************************************************************)
\* mutant: an element is placed before the elements with an equal key
ComesBeforeStrict(e, p, k, reverse) ==
    IF reverse THEN e[k] > p[k] ELSE e[k] < p[k]

\* e stays in front of the later element p in sorted(..., key=lambda x: x[k])
ComesBefore(e, p, k, reverse) ==
    IF reverse THEN e[k] >= p[k] ELSE e[k] <= p[k]

\* the sorted list with the next element p of the input put in its place
InsertSorted(sorted, p, k, reverse) ==
    LET n == Cardinality({i \in 1..Len(sorted) :
                             ComesBefore(sorted[i], p, k, reverse)})
    IN SubSeq(sorted, 1, n) \o <<p>> \o SubSeq(sorted, n + 1, Len(sorted))

\* sorted(seq, key=lambda x: x[k], reverse=reverse)
RECURSIVE Sorted(_, _, _)
Sorted(seq, k, reverse) ==
    IF seq = <<>> THEN <<>>
    ELSE InsertSorted(Sorted(SubSeq(seq, 1, Len(seq) - 1), k, reverse),
                      seq[Len(seq)], k, reverse)

\* motion.py: order_points
order_points_motion(pts) ==
    LET y_sorted == Sorted(pts, 2, FALSE)
        top_pts == Sorted(SubSeq(y_sorted, 1, 2), 1, FALSE)
        bottom_pts == Sorted(SubSeq(y_sorted, 3, Len(y_sorted)), 1, TRUE)
    IN <<top_pts[1], top_pts[2], bottom_pts[1], bottom_pts[2]>>

\* segmentation.py: order_points
order_points_segmentation(pts) ==
    LET y_sorted == Sorted(pts, 2, FALSE)
        top_pts == Sorted(SubSeq(y_sorted, 1, 2), 1, FALSE)
        bottom_pts == Sorted(SubSeq(y_sorted, 3, Len(y_sorted)), 1, FALSE)
    IN <<top_pts[1], top_pts[2], bottom_pts[2], bottom_pts[1]>>

order_points(impl, pts) ==
    IF impl = "motion" THEN order_points_motion(pts)
    ELSE order_points_segmentation(pts)

OrderImpls == {"motion", "segmentation"}

\* the corners a caller can pass
GridPoints == (0..GridMax) \X (0..GridMax)

OrderInit ==
    /\ MotionIdle
    /\ PostIdle
    /\ PlanIdle
    /\ SynthIdle
    /\ RunIdle
    /\ MainIdle
    /\ ord_impl \in OrderImpls
    /\ ord_in \in [1..4 -> GridPoints]
    /\ ord_out = <<>>

\* a call of order_points: on the input first, then on its own result
CallOrderPoints ==
    /\ ord_in # <<>>
    /\ Len(ord_out) < 2
    /\ ord_out' = Append(ord_out,
                         order_points(ord_impl,
                                      IF ord_out = <<>> THEN ord_in
                                      ELSE ord_out[Len(ord_out)]))
    /\ UNCHANGED <<ord_impl, ord_in>>
    /\ UNCHANGED <<motionVars, postVars, planVars, synthVars, runVars,
                   mainVars>>

OrderNext == CallOrderPoints

SpecOrder == OrderInit /\ [][OrderNext]_vars

(***************************************************************************)
(* export.py: main, the export pipeline, with render_chess_animation and   *)
(* load_export_data.                                                       *)
(***************************************************************************)
\* render_chess_animation: subprocess.run(..., shell=True, check=True): a
\* non-zero return code raises CalledProcessError
render_chess_animation(o) ==
    [returned |-> TRUE,
     dict |->
        IF o.kind \in {"exited", "tool_not_found"}
        THEN IF o.returncode = 0
             THEN [success |-> TRUE, output |-> o.stdout,
                   error |-> IF o.stderr # "" THEN o.stderr ELSE None]
             ELSE [success |-> FALSE,
                   output |-> IF o.stdout # "" THEN o.stdout ELSE None,
                   error |-> "Rendering failed with return code"]
        ELSE IF o.kind = "timeout"
        THEN [success |-> FALSE, output |-> None,
              error |-> "Rendering timed out after 5 minutes"]
        ELSE [success |-> FALSE, output |-> None,
              error |-> "Unexpected error during rendering"]]

\* the filter graph parts of the pairs i, i+1, ... of the loop
RECURSIVE FilterChainFrom(_, _, _, _, _)
FilterChainFrom(i, ov, bg, last, xy) ==
    IF i > ZipLen(ov, bg) THEN <<>>
    ELSE FilterParts(i, ov[i], bg[i], last, xy)
         \o FilterChainFrom(i + 1, ov, bg, VOut(i), xy)

\* get_multiple_overlay_command as one call: ValueError, or the command
get_multiple_overlay_command(ov, bg, xy_arg) ==
    LET xy == DefaultedOffset(xy_arg)
        n == ZipLen(ov, bg)
    IN IF LengthsDiffer(ov, bg) \/ BadOffset(xy)
       THEN [raised |-> TRUE, command |-> NoCommand]
       ELSE [raised |-> FALSE,
             command |-> Command(InputCmds(ov),
                                 FilterChainFrom(1, ov, bg, InputStream(0),
                                                 xy),
                                 IF n = 0 THEN InputStream(0) ELSE VOut(n))]

\* the dicts main returns
MainFailure(message) ==
    [returned |-> TRUE, dict |-> [success |-> FALSE, error |-> message]]
MainRenderFailure(render) ==
    [returned |-> TRUE,
     dict |-> [success |-> FALSE, error |-> "Rendering failed",
               render_output |-> render.dict.output]]
\* overlay_result.get('output'): None when the key is absent
GetOutput(result) ==
    IF "output" \in DOMAIN result.dict THEN result.dict.output ELSE None
\* mutant: the pipeline reports success whatever the compositing result
MainSuccessAlways(overlay) == TRUE

\* if overlay_result['success']
MainSuccess(overlay) == overlay.dict.success

MainOverlayResult(render, overlay) ==
    [returned |-> TRUE,
     dict |-> IF MainSuccess(overlay)
              THEN [success |-> TRUE,
                    message |-> "Video processing completed successfully",
                    render_output |-> render.dict.output,
                    overlay_output |-> GetOutput(overlay)]
              ELSE [success |-> FALSE, error |-> "FFmpeg failed",
                    render_output |-> render.dict.output,
                    overlay_output |-> GetOutput(overlay)]]

\* mutant: a failed render is attempted again
AfterRenderRetry(render) ==
    IF render.dict.success THEN "plan" ELSE "render"

\* if not render_result['success']: return {...}; otherwise step 3
AfterRender(render) ==
    IF render.dict.success THEN "plan" ELSE "done"

\* the manifests export.json can hold
LoadedManifests ==
    [timePerMove : {Missing, Text},
     timestamps : SeqsUpTo({UnitsPerSecond, 2 * UnitsPerSecond}, MaxLoaded),
     x_offset : {Missing},
     y_offset : {Number(40)}]

MainInit ==
    /\ MotionIdle
    /\ PostIdle
    /\ PlanIdle
    /\ SynthIdle
    /\ RunIdle
    /\ OrderIdle
    /\ main_pc = "load"
    /\ main_data = NotLoaded
    /\ render_result = NoResult
    /\ overlay_data = NoPlan
    /\ main_cmd = NoCommand
    /\ overlay_result = NoResult
    /\ invocations = <<>>
    /\ main_result = NoResult
    /\ main_steps = <<>>
    /\ files_exist = NotChecked

\* Step 1: export_data = load_export_data(); None (file not found, or not
\* JSON) aborts
MainLoad ==
    /\ main_pc = "load"
    /\ \/ /\ main_result' = MainFailure("Failed to load export.json")
          /\ main_pc' = "done"
          /\ main_data' = main_data
       \/ \E data \in LoadedManifests :
             /\ main_data' = Loaded(data)
             /\ main_pc' = "render"
             /\ main_result' = main_result
    /\ main_steps' = Append(main_steps, "load")
    /\ UNCHANGED <<render_result, overlay_data, main_cmd, overlay_result,
                   invocations, files_exist>>
    /\ UNCHANGED <<motionVars, postVars, planVars, synthVars, runVars,
                   orderVars>>

\* Step 2: render_result = render_chess_animation(); failure aborts
MainRender ==
    /\ main_pc = "render"
    /\ \E o \in Outcomes :
         LET r == render_chess_animation(o)
         IN /\ invocations' = Append(invocations, "render")
            /\ render_result' = r
            /\ main_pc' = AfterRender(r)
            /\ main_result' = IF r.dict.success THEN main_result
                              ELSE MainRenderFailure(r)
    /\ main_steps' = Append(main_steps, "render")
    /\ UNCHANGED <<main_data, overlay_data, main_cmd, overlay_result,
                   files_exist>>
    /\ UNCHANGED <<motionVars, postVars, planVars, synthVars, runVars,
                   orderVars>>

\* Step 3: overlay_data = process_overlay_data(export_data); None aborts
MainPlan ==
    /\ main_pc = "plan"
    /\ LET r == process_overlay_data(main_data.data).result
       IN /\ overlay_data' = r
          /\ IF r = NoPlan
             THEN /\ main_result' =
                         MainFailure("Failed to process overlay data")
                  /\ main_pc' = "done"
             ELSE /\ main_result' = main_result
                  /\ main_pc' = "files"
    /\ main_steps' = Append(main_steps, "plan")
    /\ UNCHANGED <<main_data, render_result, main_cmd, overlay_result,
                   invocations, files_exist>>
    /\ UNCHANGED <<motionVars, postVars, planVars, synthVars, runVars,
                   orderVars>>

\* Step 4, first half: os.path.exists of background.mp4 and of
\* chess-animation.mp4
MainCheckFiles ==
    /\ main_pc = "files"
    /\ \E background_exists \in BOOLEAN, overlay_exists \in BOOLEAN :
         /\ files_exist' = Checked(background_exists, overlay_exists)
         /\ IF ~background_exists
            THEN /\ main_result' = MainFailure("Background file not found")
                 /\ main_pc' = "done"
            ELSE IF ~overlay_exists
            THEN /\ main_result' = MainFailure("Overlay file not found")
                 /\ main_pc' = "done"
            ELSE /\ main_result' = main_result
                 /\ main_pc' = "overlay"
    /\ UNCHANGED <<main_data, render_result, overlay_data, main_cmd,
                   overlay_result, invocations, main_steps>>
    /\ UNCHANGED <<motionVars, postVars, planVars, synthVars, runVars,
                   orderVars>>

\* Step 4, second half: cmd = get_multiple_overlay_command(...);
\* overlay_result = execute_ffmpeg_command(cmd); return by its success
MainOverlay ==
    /\ main_pc = "overlay"
    /\ LET c == get_multiple_overlay_command(overlay_data.overlay_segs,
                                             overlay_data.bg_segs,
                                             Offset(overlay_data.xy_offset))
       IN IF c.raised
          THEN /\ main_result' = MainFailure("Overlay configuration error")
               /\ main_steps' = Append(main_steps, "synthesize")
               /\ UNCHANGED <<main_cmd, overlay_result, invocations>>
          ELSE \E o \in Outcomes :
                 LET r == execute_ffmpeg_command("export", o)
                 IN /\ main_cmd' = c.command
                    /\ main_steps' =
                         main_steps \o <<"synthesize", "execute">>
                    /\ invocations' = Append(invocations, "ffmpeg")
                    /\ overlay_result' = r
                    /\ main_result' = MainOverlayResult(render_result, r)
    /\ main_pc' = "done"
    /\ UNCHANGED <<main_data, render_result, overlay_data, files_exist>>
    /\ UNCHANGED <<motionVars, postVars, planVars, synthVars, runVars,
                   orderVars>>

MainNext ==
    \/ MainLoad
    \/ MainRender
    \/ MainPlan
    \/ MainCheckFiles
    \/ MainOverlay

SpecMain == MainInit /\ [][MainNext]_vars

(***************************************************************************)
(* Claims about detect_motion_in_video (checked under SpecMotion).         *)
(* motion[k] is the outcome of frame k (frame 0 has none: prev_frame is    *)
(* None), and frame k has timestamp k / fps.                               *)
(***************************************************************************)
SegStart(seg) == seg[1]
SegEnd(seg) == seg[2]

\* first and last frames of the maximal runs of motion-present frames
RunStarts(m) == {k \in 1..Len(m) : m[k] /\ (k = 1 \/ ~m[k - 1])}
RunEnds(m) == {k \in 1..Len(m) : m[k] /\ (k = Len(m) \/ ~m[k + 1])}

\* |a - b| <= 1 / f
WithinOneFrame(a, b, f) ==
    LET d == a.num * b.den - b.num * a.den
    IN (IF d < 0 THEN -d ELSE d) * f <= a.den * b.den

\* C1: the list returned by detect_motion_in_video is sorted by start time
\* and its intervals are pairwise disjoint: end[i] <= start[i+1].
C1_SortedDisjoint ==
    pc = "returned" =>
        \A i \in 1..(Len(segments) - 1) :
            /\ RatLe(SegStart(segments[i]), SegStart(segments[i + 1]))
            /\ RatLe(SegEnd(segments[i]), SegStart(segments[i + 1]))

C1_Witness == pc = "returned" /\ Len(segments) >= 2

\* C2: every emitted interval has start < end, whether closed by a
\* motion-absent frame or closed at end of stream.
C2_StartBeforeEnd ==
    \A i \in 1..Len(segments) :
        RatLt(SegStart(segments[i]), SegEnd(segments[i]))

\* motion first appears on the last frame read and the run has returned
C2_Witness ==
    /\ pc = "returned"
    /\ Len(motion) >= 2
    /\ motion[Len(motion)]
    /\ ~motion[Len(motion) - 1]
    /\ Len(segments) >= 2

\* C3: if an interval is open when the stream ends, one final interval is
\* emitted, from the recorded start (the first frame of the trailing run of
\* motion-present frames) to frame_count / fps; no run of motion is lost.
C3_FinalIntervalEmitted ==
    (pc = "returned" /\ Len(motion) >= 1 /\ motion[Len(motion)]) =>
        /\ Len(segments) = Cardinality(RunStarts(motion))
        /\ LET last == segments[Len(segments)]
               k == CHOOSE s \in RunStarts(motion) :
                        \A t \in RunStarts(motion) : t <= s
           IN /\ SegStart(last) = Timestamp(k, fps)
              /\ SegEnd(last) = Timestamp(frame_count, fps)

C3_Witness ==
    /\ pc = "returned"
    /\ Len(motion) >= 3
    /\ motion[Len(motion)]
    /\ motion[Len(motion) - 1]
    /\ Cardinality(RunStarts(motion)) = 2

\* C4: when motion is present on exactly one contiguous run of frames a..b,
\* the run ending before the last frame, exactly one interval is returned;
\* its start is within 1/fps of every instant between the last still frame
\* and the first moving one, and its end within 1/fps of every instant
\* between the last moving frame and the first still one.
C4_SingleRun ==
    (/\ pc = "returned"
     /\ Cardinality(RunStarts(motion)) = 1
     /\ \A b \in RunEnds(motion) : b < Len(motion)) =>
        /\ Len(segments) = 1
        /\ \A a \in RunStarts(motion) :
              /\ WithinOneFrame(SegStart(segments[1]), Timestamp(a, fps), fps)
              /\ WithinOneFrame(SegStart(segments[1]), Timestamp(a - 1, fps), fps)
        /\ \A b \in RunEnds(motion) :
              /\ WithinOneFrame(SegEnd(segments[1]), Timestamp(b, fps), fps)
              /\ WithinOneFrame(SegEnd(segments[1]), Timestamp(b + 1, fps), fps)

C4_Witness ==
    /\ pc = "returned"
    /\ RunStarts(motion) = {2}
    /\ RunEnds(motion) = {3}
    /\ Len(motion) = 5
    /\ Len(segments) = 1

(***************************************************************************)
(* Claims about the segment post-processor (checked under SpecPost).       *)
(***************************************************************************)

\* C5: the output of merge_overlapping_segments is strictly ordered and
\* pairwise non-overlapping: end[i] < start[i+1] for adjacent intervals
\* (for a direct call on any input list, and for the merge that ends
\* process_motion_segments, whose input is the padded list).
C5_MergeStrictlyOrdered ==
    (post_op \in {"merge", "process"} /\ post_returned) =>
        \A i \in 1..(Len(post_out) - 1) :
            SegEnd(post_out[i]) < SegStart(post_out[i + 1])

\* an unsorted input with touching and separated intervals, merged to two
C5_Witness ==
    /\ post_op = "merge"
    /\ Len(post_in) = 3
    /\ SegStart(post_in[1]) > SegStart(post_in[2])
    /\ \E i, j \in 1..3 : SegEnd(post_in[i]) = SegStart(post_in[j])
    /\ Len(post_out) = 2

\* sorted by start, with end[i] <= start[i+1] (disjoint, touching allowed)
SortedDisjoint(segs) ==
    \A i \in 1..(Len(segs) - 1) :
        /\ SegStart(segs[i]) <= SegStart(segs[i + 1])
        /\ SegEnd(segs[i]) <= SegStart(segs[i + 1])

\* sorted by start, with end[i] < start[i+1] (a gap between neighbours)
SortedSeparated(segs) ==
    \A i \in 1..(Len(segs) - 1) :
        /\ SegStart(segs[i]) <= SegStart(segs[i + 1])
        /\ SegEnd(segs[i]) < SegStart(segs[i + 1])

\* C6 as stated: merge is a no-op on every list that is already disjoint
\* and sorted by start.
C6_MergeNoOpOnDisjoint ==
    (post_op = "merge" /\ SortedDisjoint(post_in)) => post_out = post_in

\* C6 amended: merge is a no-op on every list that is sorted by start and
\* whose neighbours are separated by a gap (end[i] < start[i+1]); touching
\* neighbours (end[i] = start[i+1]) are merged.
C6_MergeNoOpOnSeparated ==
    (post_op = "merge" /\ SortedSeparated(post_in)) => post_out = post_in

C6_Witness ==
    /\ post_op = "merge"
    /\ Len(post_in) >= 2
    /\ SortedSeparated(post_in)
    /\ post_out = post_in

\* C7: every interval produced by add_padding_to_segments with padding
\* p >= 0 has padded.start >= 0 and padded.end <= video_duration.
C7_PaddingClamped ==
    (post_op = "pad" /\ post_returned /\ post_args.padding_seconds >= 0) =>
        \A i \in 1..Len(post_out) :
            /\ SegStart(post_out[i]) >= 0
            /\ SegEnd(post_out[i]) <= post_args.video_duration[1]

\* both clamps act: start - p < 0 and end + p > video_duration
C7_Witness ==
    /\ post_op = "pad"
    /\ post_returned
    /\ Len(post_in) >= 1
    /\ post_args.padding_seconds > 0
    /\ \E i \in 1..Len(post_in) :
          /\ SegStart(post_in[i]) - post_args.padding_seconds < 0
          /\ SegEnd(post_in[i]) + post_args.padding_seconds
                > post_args.video_duration[1]
          /\ post_out[i] = <<0, post_args.video_duration[1]>>

\* C8: whenever padding is requested (padding_seconds > 0) and the video
\* duration is not known (None), every post-processing entry point raises
\* the configuration error and returns or prints no list, for every input
\* list including the empty one.
C8_PaddingWithoutDurationRejected ==
    (/\ post_op \in {"process", "print"}
     /\ post_args.padding_seconds > 0
     /\ post_args.video_duration = NoDuration) =>
        (post_err = "ValueError" /\ ~post_returned)

(***************************************************************************)
(* Claims about the overlay planner (checked under SpecPlan).              *)
(***************************************************************************)
Abs(x) == IF x < 0 THEN -x ELSE x
WholeMillis(x) == x % UnitsPerMilli = 0

\* the call has returned for N >= 1 numeric timestamps and a numeric d
PlannedCase ==
    /\ plan_called
    /\ Len(export_data.timestamps) >= 1
    /\ GetTimePerMove(export_data).kind = "number"

\* N overlay and N background intervals, background interval i ending at
\* timestamp[i] of the list extended by the sentinel
PlanShape ==
    LET N == Len(export_data.timestamps)
        copy == TimestampsCopy(export_data.timestamps)
    IN /\ plan_result.kind = "plan"
       /\ Len(plan_result.overlay_segs) = N
       /\ Len(plan_result.bg_segs) = N
       /\ \A i \in 1..N : plan_result.bg_segs[i][2] = copy[i + 1]

\* C9 as stated: background interval i starts at exactly
\* timestamp[i-1] - d, except the first, which starts at exactly the first
\* timestamp.
C9_BackgroundExact ==
    PlannedCase =>
        LET N == Len(export_data.timestamps)
            d == GetTimePerMove(export_data).value
        IN /\ PlanShape
           /\ \A i \in 2..N :
                 plan_result.bg_segs[i][1] = export_data.timestamps[i] - d
           /\ plan_result.bg_segs[1][1] = export_data.timestamps[1]

\* C9 amended: N overlay and N background intervals; background interval i
\* ends at timestamp[i] and starts at timestamp[i-1] - d rounded to 3
\* decimals (a whole millisecond at most half a millisecond away); the
\* first start, shifted forward by d and rounded again, is a whole
\* millisecond at most two roundings (one millisecond) from the first
\* timestamp, and is the first timestamp itself when it and d are whole
\* milliseconds.
C9_BackgroundRounded ==
    PlannedCase =>
        LET N == Len(export_data.timestamps)
            d == GetTimePerMove(export_data).value
            ts == export_data.timestamps
            bg == plan_result.bg_segs
        IN /\ PlanShape
           /\ \A i \in 2..N :
                 /\ WholeMillis(bg[i][1])
                 /\ 2 * Abs(bg[i][1] - (ts[i] - d)) <= UnitsPerMilli
           /\ WholeMillis(bg[1][1])
           /\ Abs(bg[1][1] - ts[1]) <= UnitsPerMilli
           /\ (WholeMillis(ts[1]) /\ WholeMillis(d)) => bg[1][1] = ts[1]

\* three events at 1 s, 2 s, 3 s with timePerMove 0.2 s
C9_Witness ==
    /\ PlannedCase
    /\ export_data.timestamps =
          <<UnitsPerSecond, 2 * UnitsPerSecond, 3 * UnitsPerSecond>>
    /\ export_data.timePerMove = Number(DefaultTimePerMoveMillis * UnitsPerMilli)
    /\ plan_result.bg_segs[1] = <<UnitsPerSecond, 2 * UnitsPerSecond>>
    /\ Len(plan_result.bg_segs) = 3

\* C10: for an event-timestamp list of length 0 the planner fails (returns
\* None with the diagnostic "No timestamps found", the failure the design
\* calls EmptyPlanError) and yields no interval lists; a plan is only ever
\* produced for N >= 1.
C10_EmptyPlanRejected ==
    plan_called =>
        /\ Len(export_data.timestamps) = 0 =>
              /\ plan_result = NoPlan
              /\ plan_printed = "No timestamps found in export data"
        /\ plan_result.kind = "plan" =>
              /\ Len(export_data.timestamps) >= 1
              /\ Len(plan_result.overlay_segs) >= 1
              /\ Len(plan_result.bg_segs) >= 1

C10_Witness ==
    /\ plan_called
    /\ Len(export_data.timestamps) = 0
    /\ plan_result = NoPlan

(***************************************************************************)
(* Claims about the filter-graph synthesizer (checked under SpecSynth).    *)
(***************************************************************************)

\* C11: when the overlay list and the background list differ in length,
\* get_multiple_overlay_command raises the validation error before any
\* part of the command (inputs, filter graph, mapping) is built, and no
\* command is returned.
C11_MismatchRejectedFirst ==
    (/\ Len(overlay_segs) # Len(bg_segs)
     /\ synth_pc \notin {"idle", "start"}) =>
        /\ synth_pc = "raised"
        /\ synth_err = "ValueError"
        /\ input_cmds = <<>>
        /\ filter_complex_parts = <<>>
        /\ command = NoCommand

\* a mismatch with an otherwise valid offset has been rejected
C11_Witness ==
    /\ synth_pc = "raised"
    /\ Len(overlay_segs) = 2
    /\ Len(bg_segs) = 1
    /\ xy_offset = Offset(<<40, 30>>)

\* the operations named o in a filter chain
OpsNamed(chain, o) == {k \in 1..Len(chain) : chain[k].op = o}

\* a chain pads by d iff d > epsilon, and ends with its only setpts, which
\* shifts to the background window's start
ChainAsClaimed(chain, overlay_seg, bg_seg) ==
    LET d == (bg_seg[2] - bg_seg[1]) - (overlay_seg[2] - overlay_seg[1])
    IN /\ (OpsNamed(chain, "tpad") # {}) <=> (d > UnitsPerMilli)
       /\ \A k \in OpsNamed(chain, "tpad") :
             /\ chain[k].arg = d
             /\ k = 1
       /\ OpsNamed(chain, "setpts") = {Len(chain)}
       /\ chain[Len(chain)].arg = bg_seg[1]
       /\ Len(chain) =
             Cardinality(OpsNamed(chain, "tpad")) + 1

\* C12: for each pair i the filter chain of overlay input i has a
\* clone-last-frame pad of (background duration - overlay duration) iff
\* that difference exceeds 0.001, followed by exactly one timestamp shift
\* equal to the background window's start; overlay [0.2,0.4] with
\* background [1,5] gives a pad of 3.8 and a shift to t=1.  The same holds
\* of the single chain built by render.py get_overlay_command.
C12_FreezeAndShift ==
    /\ synth_pc = "returned" =>
          \A i \in 1..Len(overlay_segs) :
              /\ command.filter_complex[2 * i - 1].ins = <<InputStream(i)>>
              /\ ChainAsClaimed(command.filter_complex[2 * i - 1].ops,
                                overlay_segs[i], bg_segs[i])
    /\ synth_pc = "single_returned" =>
          ChainAsClaimed(command.filter_complex[1].ops,
                         overlay_segs[1], bg_segs[1])
    /\ (/\ synth_pc \in {"returned", "single_returned"}
        /\ Len(overlay_segs) >= 1
        /\ overlay_segs[1] = <<200 * UnitsPerMilli, 400 * UnitsPerMilli>>
        /\ bg_segs[1] = <<UnitsPerSecond, 5 * UnitsPerSecond>>) =>
          command.filter_complex[1].ops =
              <<[op |-> "tpad", arg |-> 3800 * UnitsPerMilli],
                [op |-> "setpts", arg |-> UnitsPerSecond]>>

\* two pairs: one padded by 3.8 s, one whose difference is below epsilon
C12_Witness ==
    /\ synth_pc = "returned"
    /\ Len(overlay_segs) = 2
    /\ overlay_segs[1] = <<200 * UnitsPerMilli, 400 * UnitsPerMilli>>
    /\ bg_segs[1] = <<UnitsPerSecond, 5 * UnitsPerSecond>>
    /\ bg_segs[2] = <<UnitsPerSecond,
                      UnitsPerSecond + 200 * UnitsPerMilli + 1>>
    /\ Len(command.filter_complex[1].ops) = 2
    /\ Len(command.filter_complex[3].ops) = 1

\* the parts of a command that produce, and that consume, a label
Producers(cmd, label) ==
    {k \in 1..Len(cmd.filter_complex) : cmd.filter_complex[k].out = label}
Consumers(cmd, label) ==
    {<<k, j>> \in (1..Len(cmd.filter_complex)) \X (1..2) :
        /\ j <= Len(cmd.filter_complex[k].ins)
        /\ cmd.filter_complex[k].ins[j] = label}

\* C13: in the command built for N pairs the overlay of step 1 takes the
\* unmodified background stream as its base, the overlay of step i+1 takes
\* the composite of step i, every composite label is produced exactly once
\* and consumed exactly once (by the next step, the last one by the output
\* mapping), and the mapped stream is the composite of step N.
C13_CompositeChain ==
    (synth_pc = "returned" /\ Len(overlay_segs) >= 1) =>
        LET N == Len(overlay_segs)
        IN /\ Len(command.filter_complex) = 2 * N
           /\ command.filter_complex[2].ins[1] = InputStream(0)
           /\ \A i \in 1..(N - 1) :
                 command.filter_complex[2 * (i + 1)].ins[1] = VOut(i)
           /\ \A i \in 1..N :
                 /\ Producers(command, VOut(i)) = {2 * i}
                 /\ Cardinality(Consumers(command, VOut(i)))
                      + (IF command.map = VOut(i) THEN 1 ELSE 0) = 1
           /\ command.map = VOut(N)

C13_Witness ==
    /\ synth_pc = "returned"
    /\ Len(overlay_segs) = 2
    /\ command.map = VOut(2)
    /\ command.filter_complex[4].ins[1] = VOut(1)

(***************************************************************************)
(* Claims about the process runner (checked under SpecRunner).             *)
(***************************************************************************)

\* C14: execute_ffmpeg_command never raises past its boundary: for every
\* outcome of the launch it returns a result, and when the external tool is
\* not found on the search path the result has success=False and
\* return_code=-1.
C14_NotFoundReported ==
    run_pc = "done" =>
        /\ run_raised = None
        /\ run_result.returned
        /\ run_outcome.kind = "tool_not_found" =>
              /\ run_result.dict.success = FALSE
              /\ run_result.dict.return_code = -1

\* C15: every result has the same shape whatever the outcome: a success
\* flag, captured standard output, captured standard error and a return
\* code, with return_code = -1 in the three failure outcomes (timeout, tool
\* not found, other exception) and a message distinct for each of them.
C15_UniformResult ==
    run_pc = "done" =>
        /\ DOMAIN run_result.dict =
              {"success", "output", "error", "return_code"}
        /\ run_outcome.kind \in {"timeout", "tool_not_found",
                                  "file_not_found", "other"} =>
              /\ run_result.dict.success = FALSE
              /\ run_result.dict.return_code = -1
        /\ run_outcome.kind = "timeout" =>
              run_result.dict.error = TimeoutMessage(run_impl)
        /\ run_outcome.kind \in {"tool_not_found", "file_not_found"} =>
              run_result.dict.error =
                  "ffmpeg.exe not found in PATH or current directory"
        /\ run_outcome.kind = "other" =>
              run_result.dict.error = "Unexpected error"

(***************************************************************************)
(* Further claims about detect_motion_in_video (checked under SpecMotion). *)
(***************************************************************************)

\* C16: every video handle opened during a run is released on every exit
\* path of detect_motion_in_video (normal return, no first frame, an
\* exception while reading properties, building the mask or processing a
\* frame): no run ends with a handle still open.
C16_HandlesReleased ==
    pc \in {"returned", "raised"} => handles = {}

\* C19: the two-state machine opens an interval exactly on the first
\* motion-present frame while IDLE, with start = frame_index / fps, closes
\* and emits it exactly on the first following motion-absent frame, with
\* end = that frame's timestamp, and changes nothing otherwise; a stream
\* without a motion-present frame yields the empty list.
C19_TwoStateMachine ==
    /\ []((pc = "returned" /\ \A k \in 1..Len(motion) : ~motion[k]) =>
             segments = <<>>)
    /\ [][(pc = "loop" /\ pc' = "loop") =>
            IF Len(motion') = Len(motion) + 1
            THEN LET m == motion'[Len(motion')]
                     at == [num |-> frame_count, den |-> fps]
                 IN IF m /\ current_segment = NoSegment
                    THEN /\ current_segment' = <<at>>
                         /\ segments' = segments
                    ELSE IF ~m /\ current_segment # NoSegment
                    THEN /\ current_segment' = NoSegment
                         /\ segments' =
                              Append(segments, <<current_segment[1], at>>)
                    ELSE UNCHANGED <<current_segment, segments>>
            ELSE UNCHANGED <<current_segment, segments>>]_vars

\* frames 2 and 3 move, frame 4 is still: one interval (2/fps, 4/fps)
C19_Witness ==
    /\ pc = "returned"
    /\ motion = <<FALSE, TRUE, TRUE, FALSE>>
    /\ segments = <<(<<[num |-> 2, den |-> fps], [num |-> 4, den |-> fps]>>)>>

\* a boundary num/den has at most RoundDigits decimal places
Rounded(t) == (t.num * (10 ^ RoundDigits)) % t.den = 0

\* C20: every start and end of the returned intervals is rounded to at most
\* 3 decimal places (boundary * 1000 is an integer), for every frame rate
\* and frame index.
C20_BoundariesRounded ==
    pc = "returned" =>
        \A i \in 1..Len(segments) :
            Rounded(SegStart(segments[i])) /\ Rounded(SegEnd(segments[i]))

(***************************************************************************)
(* Claims about the export pipeline (checked under SpecMain).              *)
(***************************************************************************)
Launches(process) ==
    Cardinality({i \in 1..Len(invocations) : invocations[i] = process})

\* C17: in one run each external process (render, compositing) is invoked
\* at most once; after a failed or timed-out invocation the run ends with a
\* failure result and the invocation is not repeated.
C17_NoRetry ==
    /\ Launches("render") <= 1
    /\ Launches("ffmpeg") <= 1
    /\ (render_result.returned /\ ~render_result.dict.success) =>
          /\ main_pc = "done"
          /\ main_result.returned
          /\ ~main_result.dict.success
          /\ invocations = <<"render">>
    /\ (overlay_result.returned /\ ~overlay_result.dict.success) =>
          /\ main_pc = "done"
          /\ main_result.returned
          /\ ~main_result.dict.success
          /\ invocations = <<"render", "ffmpeg">>

\* the compositing command timed out, or could not be launched
C17_Witness ==
    /\ main_pc = "done"
    /\ invocations = <<"render", "ffmpeg">>
    /\ overlay_result.returned
    /\ overlay_result.dict.return_code = -1
    /\ ~main_result.dict.success

(***************************************************************************)
(* Claims about order_points (checked under SpecOrder).                    *)
(***************************************************************************)
Collinear(a, b, c) ==
    (b[1] - a[1]) * (c[2] - a[2]) = (b[2] - a[2]) * (c[1] - a[1])

\* four distinct corners, no three of them on a line
NonDegenerate(pts) ==
    \A i, j, k \in 1..4 :
        (i < j /\ j < k) => ~Collinear(pts[i], pts[j], pts[k])

\* C18: for every 4-point input forming a non-degenerate quadrilateral,
\* also with two points sharing a vertical or horizontal coordinate,
\* order_points(order_points(pts)) = order_points(pts).
C18_OrderIdempotent ==
    (Len(ord_out) = 2 /\ NonDegenerate(ord_in)) => ord_out[2] = ord_out[1]

\* a diamond given out of order: its second and third corners by height
\* share their y, its first and last share their x
C18_Witness ==
    /\ Len(ord_out) = 2
    /\ NonDegenerate(ord_in)
    /\ ord_in = <<(<<2, 1>>), (<<1, 2>>), (<<0, 1>>), (<<1, 0>>)>>
    /\ ord_out[1] # ord_in

\* the steps of main, in the order of the code
MainSteps == <<"load", "render", "plan", "synthesize", "execute">>

IsPrefix(s, t) == Len(s) <= Len(t) /\ s = SubSeq(t, 1, Len(s))

Entered(step) == \E i \in 1..Len(main_steps) : main_steps[i] = step

Failed == main_result.returned /\ ~main_result.dict.success

\* C21: in main the steps run in the fixed order load manifest, render,
\* plan, synthesize, execute, and the run stops at the first failing step:
\* the compositing command is executed only if the manifest loaded, the
\* render succeeded, the planner produced a plan and both input files
\* exist, and the result has success=True only if the compositing process
\* exited with return code 0.
C21_StepOrder ==
    /\ IsPrefix(main_steps, MainSteps)
    /\ (Entered("load") /\ ~main_data.loaded) =>
          main_pc = "done" /\ Failed /\ main_steps = <<"load">>
    /\ (render_result.returned /\ ~render_result.dict.success) =>
          main_pc = "done" /\ Failed /\ main_steps = <<"load", "render">>
    /\ (Entered("plan") /\ overlay_data.kind # "plan") =>
          main_pc = "done" /\ Failed
          /\ main_steps = <<"load", "render", "plan">>
    /\ (files_exist.checked
         /\ ~(files_exist.background /\ files_exist.overlay)) =>
          main_pc = "done" /\ Failed
          /\ main_steps = <<"load", "render", "plan">>
    /\ Entered("execute") =>
          /\ main_data.loaded
          /\ render_result.returned /\ render_result.dict.success
          /\ overlay_data.kind = "plan"
          /\ files_exist.checked
          /\ files_exist.background /\ files_exist.overlay
          /\ invocations = <<"render", "ffmpeg">>
    /\ (main_result.returned /\ main_result.dict.success) =>
          /\ main_steps = MainSteps
          /\ overlay_result.returned
          /\ overlay_result.dict.return_code = 0

\* a run through all five steps whose compositing process exited with 0
C21_Witness ==
    /\ main_pc = "done"
    /\ main_steps = MainSteps
    /\ main_result.dict.success
    /\ overlay_result.dict.return_code = 0
    /\ Len(overlay_data.overlay_segs) = 2

=============================================================================
